---- MODULE Spec2Model ----
(***************************************************************************)
(* Model of pulp_puppet's PuppetModuleInstallDistributor                   *)
(* (plugins/distributors/installdistributor.py): publish_repo, the        *)
(* archive path check, the clearing of the destination and DetailReport.   *)
(*                                                                         *)
(* Python strings are sequences of one-character strings, so that          *)
(* os.path.join, os.path.normpath, str.startswith and str.endswith are     *)
(* computed character by character as the library computes them.           *)
(***************************************************************************)
EXTENDS Integers, Sequences, FiniteSets, TLC

(* ------------------------------ bounds --------------------------------- *)
\* longest entry name enumerated for the path check
MaxNameLen == 5
\* largest number of units in the repository
MaxUnits == 2
\* number of publish_repo calls made on one distributor object
MaxCalls == 2

(* --------------------------- Python strings ---------------------------- *)
SLASH == "/"
DOT == "."

startswith(s, p) ==
    /\ Len(p) <= Len(s)
    /\ SubSeq(s, 1, Len(p)) = p

endswith(s, p) ==
    /\ Len(p) <= Len(s)
    /\ SubSeq(s, Len(s) - Len(p) + 1, Len(s)) = p

\* str.split('/'): the components between separators, empty ones included
RECURSIVE SplitAcc(_, _, _)
SplitAcc(s, k, comps) ==
    IF k > Len(s) THEN comps
    ELSE SplitAcc(s, k + 1,
                  IF s[k] = SLASH THEN Append(comps, <<>>)
                  ELSE [comps EXCEPT ![Len(comps)] = Append(@, s[k])])

split(s) == SplitAcc(s, 1, << <<>> >>)

\* '/'.join(comps)
RECURSIVE slash_join(_)
slash_join(comps) ==
    IF comps = <<>> THEN <<>>
    ELSE IF Len(comps) = 1 THEN comps[1]
    ELSE comps[1] \o <<SLASH>> \o slash_join(Tail(comps))

\* posixpath.join(a, b)
path_join(a, b) ==
    IF startswith(b, <<SLASH>>) THEN b
    ELSE IF a = <<>> \/ endswith(a, <<SLASH>>) THEN a \o b
    ELSE a \o <<SLASH>> \o b

\* the component loop of posixpath.normpath
RECURSIVE NormAcc(_, _, _, _)
NormAcc(comps, k, new_comps, initial_slashes) ==
    IF k > Len(comps) THEN new_comps
    ELSE LET comp == comps[k] IN
         IF comp = <<>> \/ comp = <<DOT>>
         THEN NormAcc(comps, k + 1, new_comps, initial_slashes)
         ELSE IF \/ comp # <<DOT, DOT>>
                 \/ (initial_slashes = 0 /\ new_comps = <<>>)
                 \/ (new_comps # <<>> /\ new_comps[Len(new_comps)] = <<DOT, DOT>>)
         THEN NormAcc(comps, k + 1, Append(new_comps, comp), initial_slashes)
         ELSE IF new_comps # <<>>
         THEN NormAcc(comps, k + 1, SubSeq(new_comps, 1, Len(new_comps) - 1), initial_slashes)
         ELSE NormAcc(comps, k + 1, new_comps, initial_slashes)

\* posixpath.normpath(path)
normpath(path) ==
    IF path = <<>> THEN <<DOT>>
    ELSE LET initial_slashes ==
                 IF ~startswith(path, <<SLASH>>) THEN 0
                 ELSE IF startswith(path, <<SLASH, SLASH>>)
                         /\ ~startswith(path, <<SLASH, SLASH, SLASH>>) THEN 2
                 ELSE 1
             body == slash_join(NormAcc(split(path), 1, <<>>, initial_slashes))
             p == IF initial_slashes = 2 THEN <<SLASH, SLASH>> \o body
                  ELSE IF initial_slashes = 1 THEN <<SLASH>> \o body
                  ELSE body
         IN IF p = <<>> THEN <<DOT>> ELSE p

(* ------------------------ _archive_paths_are_safe ---------------------- *)
\* a slip of the loop: the destination never gets its trailing '/'
RECURSIVE PathsLoopNoSeparator(_, _, _)
PathsLoopNoSeparator(dest, names, k) ==
    IF k > Len(names) THEN TRUE
    ELSE IF ~startswith(normpath(path_join(dest, names[k])), dest) THEN FALSE
    ELSE PathsLoopNoSeparator(dest, names, k + 1)

\* the loop over archive.getnames(); destination is the loop-carried local
\* that gains its trailing '/' in the first iteration
RECURSIVE PathsLoop(_, _, _)
PathsLoop(dest, names, k) ==
    IF k > Len(names) THEN TRUE
    ELSE LET result == normpath(path_join(dest, names[k]))
             dest2 == IF ~endswith(dest, <<SLASH>>) THEN dest \o <<SLASH>> ELSE dest
         IN IF ~startswith(result, dest2) THEN FALSE
            ELSE PathsLoop(dest2, names, k + 1)

\* a slip of the loop: return after looking at the first name only
archive_paths_first_name_only(dest, names) ==
    PathsLoop(dest, SubSeq(names, 1, IF names = <<>> THEN 0 ELSE 1), 1)

archive_paths_are_safe(dest, names) == PathsLoop(dest, names, 1)

(* ------------------------------ constants ------------------------------ *)
ERROR_MESSAGE_PATH == "one or more units contains a path outside its base extraction path"
\* str(e) of the IOError/OSError raised by each library call
IOErrorMessage == "[Errno 5] Input/output error"
ClearError == "[Errno 13] Permission denied"
NoError == "none"

(* ------------------------------- inputs -------------------------------- *)
Alphabet == {SLASH, DOT, "d"}
\* every string over Alphabet of at most n characters
Strings(n) == UNION {[1..k -> Alphabet] : k \in 0..n}

D == <<"/", "d">>
Root == <<"/">>
\* values of the install path the path check is tried on
PathDestinations ==
    {D, D \o <<SLASH>>, Root, D \o <<SLASH, "d">>, D \o <<SLASH, DOT>>}
\* entries put next to the enumerated one: a contained one and an escaping one
SampleNames == {<<"d">>, <<DOT, DOT>>}
PathArchives ==
    {<<>>} \cup {<<n>> : n \in Strings(MaxNameLen)}
           \cup {<<n, s>> : n \in Strings(MaxNameLen), s \in SampleNames}
           \cup {<<s, n>> : n \in Strings(MaxNameLen), s \in SampleNames}

\* contents (entry names) of the tarballs found at the units' storage paths
Archives ==
    { << <<"m", "/", "x">>, <<"y">> >>,
      << <<"m", "/", "x">>, <<DOT, DOT, "/", "e">> >> }
\* the repository: the tarball of each of its units, in get_units order
Repositories == UNION {[1..n -> Archives] : n \in 0..MaxUnits}
\* values of config.get(CONFIG_INSTALL_PATH); <<>> is None or ''
Destinations == {<<>>, D}

(* ----------------------------- file system ----------------------------- *)
\* components of an absolute path after lexical resolution
Comps(p) == NormAcc(split(p), 1, <<>>, 1)
IsPrefix(a, b) == Len(a) <= Len(b) /\ SubSeq(b, 1, Len(a)) = a
AbsPath(comps) == <<SLASH>> \o slash_join(comps)

\* a directory, or a file with the contents it had before any install
Entry(p, k) == [path |-> p, kind |-> k, data |-> IF k = "dir" THEN "-" ELSE "old"]
\* a file with the contents of an archive member
Member(p) == [path |-> p, kind |-> "file", data |-> "tar"]
\* os.listdir(destination), joined with destination
listdir(f, dest) ==
    {e \in f : /\ IsPrefix(Comps(dest), Comps(e.path))
               /\ Len(Comps(e.path)) = Len(Comps(dest)) + 1}
\* a slip: no test for a directory
isdir_always(e) == TRUE

\* os.path.isdir
isdir(e) == e.kind = "dir"
\* shutil.rmtree(path)
rmtree(f, p) == {e \in f : ~IsPrefix(Comps(p), Comps(e.path))}
RmTrees(f, ps) == {e \in f : \A p \in ps : ~IsPrefix(Comps(p), Comps(e.path))}

\* a slip: nothing is deleted
clear_destination_directory_keeps(f, dest) == f

\* _clear_destination_directory when no call fails
clear_destination_directory(f, dest) ==
    RmTrees(f, {e.path : e \in {c \in listdir(f, dest) : isdir(c)}})

\* one member written by extractall: a regular file and its parent directories
Parents(p) ==
    {AbsPath(SubSeq(Comps(p), 1, j)) : j \in 1..(Len(Comps(p)) - 1)}
CanWrite(f, p) ==
    /\ Comps(p) # <<>>
    /\ \A e \in f : e.path = p => e.kind # "dir"
    /\ \A e \in f : e.path \in Parents(p) => e.kind # "file"
\* an existing file of that name is overwritten
WriteFile(f, p) ==
    ({e \in f : e.path # p} \cup {Member(p)}) \cup {Entry(q, "dir") : q \in Parents(p)}

Target(dest, name) == normpath(path_join(dest, name))

\* archive.extractall(destination) stopped after the first n members
RECURSIVE extractall(_, _, _, _)
extractall(f, dest, names, n) ==
    IF n = 0 THEN f
    ELSE WriteFile(extractall(f, dest, names, n - 1), Target(dest, names[n]))
RECURSIVE Extractable(_, _, _, _)
Extractable(f, dest, names, n) ==
    IF n = 0 THEN TRUE
    ELSE /\ Extractable(f, dest, names, n - 1)
         /\ CanWrite(extractall(f, dest, names, n - 1), Target(dest, names[n]))

(* ----------------------------- DetailReport ---------------------------- *)
NewReport == [success_unit_keys |-> <<>>, errors |-> <<>>]
success(report, unit_key) ==
    [report EXCEPT !.success_unit_keys = Append(@, unit_key)]
error(report, unit_key, error_message) ==
    [report EXCEPT !.errors = Append(@, <<unit_key, error_message>>)]
\* a slip of the property: it never reports an error
has_errors_never(report) == FALSE

has_errors(report) == report.errors # <<>>

(* ------------------------------- tarfile ------------------------------- *)
\* a slip: the archive is never closed
archive_close_missing(open_archives, unit) == open_archives

\* archive.close(): the handle is released, also when close() raises
archive_close(open_archives, unit) == open_archives \ {unit}

\* publish_conduit.build_failure_report / build_success_report
build_failure_report(summary, details) ==
    [status |-> "failure", summary |-> summary, details |-> details]
build_success_report(summary, details) ==
    [status |-> "success", summary |-> summary, details |-> details]
\* an exception left publish_repo: the caller gets no report
Raised(e) == [status |-> "raised", summary |-> <<e>>, details |-> NewReport]
NoResult == [status |-> "none", summary |-> <<>>, details |-> NewReport]

(* -------------------------------- state -------------------------------- *)
VARIABLES
    detail_report,  \* self.detail_report.report
    pc,             \* position inside publish_repo; "idle"/"done" outside
    destination,    \* local destination of publish_repo
    units,          \* local units: the unit keys, in order
    idx,            \* position of the running for loop in units
    storage,        \* the repository: entry names of each unit's tarball
    archive,        \* entry names of the archive opened last
    handles,        \* units whose archive is open
    exc,            \* exception raised inside the inner try, pending
    paths_safe,     \* value returned by the last _archive_paths_are_safe
    result,         \* outcome of the last publish_repo call
    fs,             \* files and directories on disk
    calls,          \* publish_repo calls made on this distributor
    hist            \* what the current call has done so far

vars == <<detail_report, pc, destination, units, idx, storage, archive,
          handles, exc, paths_safe, result, fs, calls, hist>>

\* disk before any install: the destination, a file outside of it, and
\* the leftovers of an earlier install (directories and top-level files)
BaseTree == {Entry(D, "dir"), Entry(<<"/", "e">>, "file")}
OldTree ==
    {Entry(D \o <<"/", "o">>, "dir"), Entry(D \o <<"/", "o", "/", "y">>, "file"),
     Entry(D \o <<"/", "m">>, "dir"), Entry(D \o <<"/", "m", "/", "z">>, "file"),
     Entry(D \o <<"/", "f">>, "file"), Entry(D \o <<"/", "y">>, "file")}
InitialTrees == {BaseTree \cup OldTree}

\* history of the running call, kept to state properties of a whole run:
\*   checked      units whose archive the safety check tried to open
\*   unsafe       units for which _archive_paths_are_safe returned False
\*   unreadable   units whose archive failed to open, list or close in the check
\*   cleared      _clear_destination_directory was called
\*   extracted    units on whose archive extractall was called
\*   written      paths written by extractall
\*   io_failed    units whose extraction raised IOError (open, extractall, close)
\*   exit         the return statement taken
\*   fs0, report0 the disk and the report when the call started
NewHist(f, report) ==
    [checked |-> {}, unsafe |-> {}, unreadable |-> {},
     cleared |-> FALSE, extracted |-> {}, written |-> {}, io_failed |-> {},
     exit |-> "none", fs0 |-> f, report0 |-> report]

\* PuppetModuleInstallDistributor.__init__
Init ==
    /\ detail_report = NewReport
    /\ pc = "idle"
    /\ destination = <<>>
    /\ units = <<>>
    /\ idx = 1
    /\ storage \in Repositories
    /\ archive = <<>>
    /\ handles = {}
    /\ exc = NoError
    /\ paths_safe = TRUE
    /\ result = NoResult
    /\ fs \in InitialTrees
    /\ calls = 0
    /\ hist = NewHist(fs, NewReport)

\* publish_conduit.get_units(...): the unit keys of the repository
get_units == [k \in 1..Len(storage) |-> k]
unit_key == units[idx]
\* a slip: the loop stops after its first unit
NextUnitBreak(loop, after) == after

\* where a for loop over units goes after the unit at idx
NextUnit(loop, after) == IF idx + 1 > Len(units) THEN after ELSE loop

(* ----------------------------- publish_repo ---------------------------- *)
\* lines 103-108: read the install path, return if missing, get the units
PublishRepo(dest) ==
    /\ pc \in {"idle", "done"}
    /\ calls < MaxCalls
    /\ calls' = calls + 1
    /\ destination' = dest
    /\ hist' = [NewHist(fs, detail_report) EXCEPT
                    !.exit = IF dest = <<>> THEN "no_path" ELSE "none"]
    /\ idx' = 1
    /\ IF dest = <<>>
       THEN /\ result' = build_failure_report(<<"install path not provided">>, detail_report)
            /\ pc' = "done"
            /\ units' = <<>>
       ELSE /\ result' = NoResult
            /\ units' = get_units
            /\ pc' = IF get_units = <<>> THEN "check_done" ELSE "check_open"
    /\ archive' = <<>>
    /\ paths_safe' = TRUE
    /\ UNCHANGED <<detail_report, storage, handles, exc, fs>>

\* line 157: tarfile.open(unit.storage_path) in _check_for_unsafe_archive_paths
CheckOpen(outcome) ==
    /\ pc = "check_open"
    /\ hist' = [hist EXCEPT !.checked = @ \cup {unit_key},
                            !.unreadable = IF outcome = "ok" THEN @ ELSE @ \cup {unit_key},
                            !.exit = IF outcome = "ReadError" THEN "raised" ELSE @]
    /\ CASE outcome = "ok" ->
              /\ archive' = storage[unit_key]
              /\ handles' = handles \cup {unit_key}
              /\ pc' = "check_paths"
              /\ UNCHANGED <<detail_report, idx, result>>
         [] outcome = "IOError" ->
              \* line 163-164
              /\ detail_report' = error(detail_report, unit_key, IOErrorMessage)
              /\ idx' = idx + 1
              /\ pc' = NextUnit("check_open", "check_done")
              /\ UNCHANGED <<archive, handles, result>>
         [] outcome = "ReadError" ->
              \* tarfile.ReadError is neither OSError nor IOError
              /\ result' = Raised("tarfile.ReadError")
              /\ pc' = "done"
              /\ UNCHANGED <<detail_report, idx, archive, handles>>
    /\ UNCHANGED <<destination, units, storage, exc, paths_safe, fs, calls>>

\* lines 159-160: archive.getnames() and the path check
CheckPaths(outcome) ==
    /\ pc = "check_paths"
    /\ pc' = "check_close"
    /\ CASE outcome = "ok" ->
              /\ paths_safe' = archive_paths_are_safe(destination, archive)
              /\ exc' = NoError
              /\ detail_report' = IF ~paths_safe'
                                  THEN error(detail_report, unit_key, ERROR_MESSAGE_PATH)
                                  ELSE detail_report
              /\ hist' = [hist EXCEPT !.unsafe = IF ~paths_safe' THEN @ \cup {unit_key} ELSE @]
         [] outcome = "IOError" ->
              /\ exc' = IOErrorMessage
              /\ hist' = [hist EXCEPT !.unreadable = @ \cup {unit_key}]
              /\ UNCHANGED <<detail_report, paths_safe>>
    /\ UNCHANGED <<destination, units, idx, storage, archive, handles, result, fs, calls>>

\* lines 161-164: archive.close() in the finally, then the except clause
CheckClose(outcome) ==
    /\ pc = "check_close"
    /\ handles' = archive_close(handles, unit_key)
    /\ LET e == IF outcome = "IOError" THEN IOErrorMessage ELSE exc
       IN detail_report' = IF e # NoError THEN error(detail_report, unit_key, e)
                           ELSE detail_report
    /\ exc' = NoError
    /\ idx' = idx + 1
    /\ pc' = NextUnit("check_open", "check_done")
    /\ hist' = [hist EXCEPT !.unreadable = IF outcome = "IOError" THEN @ \cup {unit_key} ELSE @]
    /\ UNCHANGED <<destination, units, storage, archive, paths_safe, result, fs, calls>>

\* lines 112-113
CheckReturn ==
    /\ pc = "check_done"
    /\ IF has_errors(detail_report)
       THEN /\ result' = build_failure_report(<<"failed">>, detail_report)
            /\ pc' = "done"
            /\ hist' = [hist EXCEPT !.exit = "unsafe"]
       ELSE /\ pc' = "clear"
            /\ UNCHANGED <<result, hist>>
    /\ UNCHANGED <<detail_report, destination, units, idx, storage, archive,
                   handles, exc, paths_safe, fs, calls>>

\* lines 116-121 with _clear_destination_directory (lines 198-201)
\* outcome "ok": every directory child removed; "listdir": os.listdir raised;
\* "rmtree": shutil.rmtree raised after the trees in removed were deleted
ClearDestination(outcome, removed) ==
    /\ pc = "clear"
    /\ hist' = [hist EXCEPT !.cleared = TRUE,
                            !.exit = IF outcome = "ok" THEN @ ELSE "clear_failed"]
    /\ idx' = 1
    /\ LET dirs == {e.path : e \in {c \in listdir(fs, destination) : isdir(c)}}
       IN CASE outcome = "ok" ->
                 /\ removed = dirs
                 /\ fs' = clear_destination_directory(fs, destination)
                 /\ pc' = IF units = <<>> THEN "extract_done" ELSE "extract_open"
                 /\ UNCHANGED result
            [] outcome = "listdir" ->
                 /\ removed = {}
                 /\ UNCHANGED fs
                 /\ result' = build_failure_report(
                        <<"failed to clear destination directory: ", ClearError>>,
                        detail_report)
                 /\ pc' = "done"
            [] outcome = "rmtree" ->
                 /\ removed \subseteq dirs
                 /\ removed # dirs
                 /\ fs' = RmTrees(fs, removed)
                 /\ result' = build_failure_report(
                        <<"failed to clear destination directory: ", ClearError>>,
                        detail_report)
                 /\ pc' = "done"
    /\ UNCHANGED <<detail_report, destination, units, storage, archive, handles,
                   exc, paths_safe, calls>>

\* line 126: tarfile.open(unit.storage_path) in the publish loop
ExtractOpen(outcome) ==
    /\ pc = "extract_open"
    /\ CASE outcome = "ok" ->
              /\ archive' = storage[unit_key]
              /\ handles' = handles \cup {unit_key}
              /\ pc' = "extract_all"
              /\ UNCHANGED <<detail_report, idx, result>>
         [] outcome = "IOError" ->
              \* lines 132-133
              /\ detail_report' = error(detail_report, unit_key, IOErrorMessage)
              /\ idx' = idx + 1
              /\ pc' = NextUnit("extract_open", "extract_done")
              /\ UNCHANGED <<archive, handles, result>>
         [] outcome = "ReadError" ->
              /\ result' = Raised("tarfile.ReadError")
              /\ pc' = "done"
              /\ UNCHANGED <<detail_report, idx, archive, handles>>
    /\ hist' = [hist EXCEPT !.io_failed = IF outcome = "IOError" THEN @ \cup {unit_key} ELSE @,
                            !.exit = IF outcome = "ReadError" THEN "raised" ELSE @]
    /\ UNCHANGED <<destination, units, storage, exc, paths_safe, fs, calls>>

\* line 128: archive.extractall(destination); n members get written, and
\* IOError is raised unless that is all of them
ExtractAll(n) ==
    /\ pc = "extract_all"
    /\ n \in 0..Len(archive)
    /\ Extractable(fs, destination, archive, n)
    /\ fs' = extractall(fs, destination, archive, n)
    /\ exc' = IF n = Len(archive) THEN NoError ELSE IOErrorMessage
    /\ hist' = [hist EXCEPT !.extracted = @ \cup {unit_key},
                            !.written = @ \cup {Target(destination, archive[j]) : j \in 1..n},
                            !.io_failed = IF n = Len(archive) THEN @ ELSE @ \cup {unit_key}]
    /\ pc' = "extract_close"
    /\ UNCHANGED <<detail_report, destination, units, idx, storage, archive,
                   handles, paths_safe, result, calls>>

\* a slip: success is recorded inside the inner try, before the finally
ExtractCloseSuccessFirst(outcome) ==
    /\ pc = "extract_close"
    /\ handles' = archive_close(handles, unit_key)
    /\ LET recorded == IF exc = NoError THEN success(detail_report, unit_key)
                       ELSE detail_report
           e == IF outcome = "IOError" THEN IOErrorMessage ELSE exc
       IN detail_report' = IF e # NoError THEN error(recorded, unit_key, e) ELSE recorded
    /\ exc' = NoError
    /\ idx' = idx + 1
    /\ pc' = NextUnit("extract_open", "extract_done")
    /\ hist' = [hist EXCEPT !.io_failed = IF outcome = "IOError" THEN @ \cup {unit_key} ELSE @]
    /\ UNCHANGED <<destination, units, storage, archive, paths_safe, result, fs, calls>>

\* lines 129-133: archive.close() in the finally, then success or the except
ExtractClose(outcome) ==
    /\ pc = "extract_close"
    /\ handles' = archive_close(handles, unit_key)
    /\ LET e == IF outcome = "IOError" THEN IOErrorMessage ELSE exc
       IN detail_report' = IF e # NoError THEN error(detail_report, unit_key, e)
                           ELSE success(detail_report, unit_key)
    /\ exc' = NoError
    /\ idx' = idx + 1
    /\ pc' = NextUnit("extract_open", "extract_done")
    /\ hist' = [hist EXCEPT !.io_failed = IF outcome = "IOError" THEN @ \cup {unit_key} ELSE @]
    /\ UNCHANGED <<destination, units, storage, archive, paths_safe, result, fs, calls>>

\* lines 136-139
Return ==
    /\ pc = "extract_done"
    /\ result' = IF has_errors(detail_report)
                 THEN build_failure_report(<<"failed">>, detail_report)
                 ELSE build_success_report(<<"success">>, detail_report)
    /\ pc' = "done"
    /\ hist' = [hist EXCEPT !.exit = "published"]
    /\ UNCHANGED <<detail_report, destination, units, idx, storage, archive,
                   handles, exc, paths_safe, fs, calls>>

OpenOutcomes == {"ok", "IOError", "ReadError"}
IOOutcomes == {"ok", "IOError"}
ClearOutcomes == {"ok", "listdir", "rmtree"}

Next ==
    \/ \E dest \in Destinations : PublishRepo(dest)
    \/ \E o \in OpenOutcomes : CheckOpen(o)
    \/ \E o \in IOOutcomes : CheckPaths(o)
    \/ \E o \in IOOutcomes : CheckClose(o)
    \/ CheckReturn
    \/ \E o \in ClearOutcomes, removed \in SUBSET {e.path : e \in fs} :
           ClearDestination(o, removed)
    \/ \E o \in OpenOutcomes : ExtractOpen(o)
    \/ \E n \in 0..Len(archive) : ExtractAll(n)
    \/ \E o \in IOOutcomes : ExtractClose(o)
    \/ Return

Spec == Init /\ [][Next]_vars

(* ------------- the path check alone, on enumerated inputs -------------- *)
InitPath ==
    /\ detail_report = NewReport
    /\ pc = "path_call"
    /\ destination \in PathDestinations
    /\ units = <<>>
    /\ idx = 1
    /\ storage = <<>>
    /\ archive \in PathArchives
    /\ handles = {}
    /\ exc = NoError
    /\ paths_safe = TRUE
    /\ result = NoResult
    /\ fs = BaseTree
    /\ calls = 0
    /\ hist = NewHist(fs, NewReport)

\* line 159: self._archive_paths_are_safe(destination, archive)
ArchivePathsAreSafe ==
    /\ pc = "path_call"
    /\ paths_safe' = archive_paths_are_safe(destination, archive)
    /\ pc' = "path_ret"
    /\ UNCHANGED <<detail_report, destination, units, idx, storage, archive,
                   handles, exc, result, fs, calls, hist>>

NextPath == ArchivePathsAreSafe

SpecPath == InitPath /\ [][NextPath]_vars

(* ============================ properties =============================== *)
\* the lexical resolution of join(dest, name) is dest or lies below it
Inside(dest, name) == IsPrefix(Comps(dest), Comps(Target(dest, name)))
\* number of positions of seq holding k
CountKey(seq, k) == Cardinality({i \in DOMAIN seq : seq[i] = k})
ErrorKeys(report) == [i \in DOMAIN report.errors |-> report.errors[i][1]]
Range(seq) == {seq[i] : i \in DOMAIN seq}
Returned == pc = "done"

\* C1: whatever extractall has written in a run resolves to a path inside
\* the destination, nothing outside the destination is created, and
\* extractall is called only when every entry name of every unit's archive
\* is contained in the destination.
C1_ExtractionStaysInside ==
    /\ \A p \in hist.written : IsPrefix(Comps(destination), Comps(p))
    /\ \A e \in fs \ hist.fs0 : IsPrefix(Comps(destination), Comps(e.path))
    /\ (pc = "extract_all" \/ hist.extracted # {}) =>
           \A k \in 1..Len(storage) : \A j \in 1..Len(storage[k]) :
               Inside(destination, storage[k][j])

\* two units have been extracted and files were written
C1_Witness == Cardinality(hist.extracted) >= 2 /\ hist.written # {}

\* C2: when a unit failed the safety check (unsafe path, or archive not
\* opened, listed or closed), publish_repo returns a failure and has neither cleared
\* nor extracted: the disk is as it was.
C2_FailedCheckReturnsFailure ==
    (Returned /\ (hist.unsafe \cup hist.unreadable) # {}) =>
        /\ result.status = "failure"
        /\ ~hist.cleared
        /\ hist.extracted = {}
        /\ fs = hist.fs0

\* C3: _archive_paths_are_safe returns True iff no entry name resolves
\* outside the destination.
C3_SafeIffNoEntryEscapes ==
    pc = "path_ret" =>
        (paths_safe <=> \A j \in 1..Len(archive) : Inside(destination, archive[j]))

\* C4: a run that went through the extraction phase with N units, K of them
\* failing with an I/O error, returns a report with exactly K errors and
\* N-K successes, every unit key once, and has_errors iff K > 0.
C4_ReportCountsUnits ==
    hist.exit = "published" =>
        LET N == Len(units)
            K == Cardinality(hist.io_failed)
        IN /\ Len(result.details.errors) = K
           /\ Len(result.details.success_unit_keys) = N - K
           /\ \A i \in 1..N :
                  CountKey(result.details.success_unit_keys, units[i])
                  + CountKey(ErrorKeys(result.details), units[i]) = 1
           /\ (result.details.errors # <<>>) <=> (K > 0)

\* C5: when clearing fails nothing is extracted, and the failure returned
\* carries the clearing error and a report without errors and successes.
C5_ClearFailureReport ==
    hist.exit = "clear_failed" =>
        /\ hist.extracted = {}
        /\ result.status = "failure"
        /\ result.summary = <<"failed to clear destination directory: ", ClearError>>
        /\ result.details = detail_report
        /\ result.details.errors = <<>>
        /\ result.details.success_unit_keys = <<>>

\* C6: without an install path publish_repo returns the failure
\* "install path not provided" with an empty report, and touches nothing.
C6_NoPathEmptyReport ==
    hist.exit = "no_path" =>
        /\ result = build_failure_report(<<"install path not provided">>, NewReport)
        /\ hist.checked = {} /\ ~hist.cleared /\ hist.extracted = {}
        /\ fs = hist.fs0 /\ handles = {}

\* C7: a run that ends after the extraction phase returns a failure when the
\* report has errors and a success otherwise, the report attached; a success
\* is returned only with no errors and every unit's key among the successes.
C7_ResultFollowsErrors ==
    /\ hist.exit = "published" =>
           /\ result.details = detail_report
           /\ result.status = IF detail_report.errors # <<>> THEN "failure" ELSE "success"
    /\ (Returned /\ result.status = "success") =>
           /\ result.details.errors = <<>>
           /\ \A i \in 1..Len(units) : units[i] \in Range(result.details.success_unit_keys)

\* a success returned for two units
C7_Witness ==
    /\ hist.exit = "published" /\ result.status = "success" /\ Len(units) = 2

\* C8: whatever fails for a unit's archive, the failure is recorded for the
\* unit and publish_repo returns a result with the report.
C8_AlwaysReturnsReport ==
    Returned =>
        /\ result.status \in {"success", "failure"}
        /\ result.details = detail_report
        /\ \A k \in hist.unreadable \cup hist.io_failed : k \in Range(ErrorKeys(detail_report))

\* C9: at the end of the safety check every unit was checked and the report
\* holds exactly one error for each unit that is unsafe (the path message)
\* or whose archive failed (the I/O message), and nothing else.
C9_OneErrorPerFailedUnit ==
    pc = "check_done" =>
        LET failed == hist.unsafe \cup hist.unreadable
        IN /\ hist.checked = Range(units)
           /\ Len(detail_report.errors) = Cardinality(failed)
           /\ \A k \in Range(units) :
                  /\ CountKey(ErrorKeys(detail_report), k) = IF k \in failed THEN 1 ELSE 0
                  /\ k \in hist.unsafe =>
                         <<k, ERROR_MESSAGE_PATH>> \in Range(detail_report.errors)
                  /\ k \in failed \ hist.unsafe =>
                         <<k, IOErrorMessage>> \in Range(detail_report.errors)

\* C10: in every state of the report a unit key is in at most one of the
\* two sequences and at most once.
C10_KeyAtMostOnce ==
    \A k \in 1..MaxUnits :
        CountKey(detail_report.success_unit_keys, k)
        + CountKey(ErrorKeys(detail_report), k) <= 1

\* C11: every publish_repo call starts from an empty report.
C11_CallStartsWithEmptyReport == hist.report0 = NewReport

\* C12: the same successful install run a second time leaves the same
\* directory contents and returns a report equal to that of the first run.
C12_SecondInstallSameResult ==
    (/\ calls = 2 /\ units # <<>>
     /\ hist.report0 = [success_unit_keys |-> units, errors |-> <<>>]
     /\ hist.exit = "published" /\ result.status = "success") =>
        /\ fs = hist.fs0
        /\ result.details = hist.report0

\* e is an immediate child of dest
DirectChild(dest, e) ==
    /\ IsPrefix(Comps(dest), Comps(e.path))
    /\ Len(Comps(e.path)) = Len(Comps(dest)) + 1
\* an extracted member lies at or below path p
Recreated(p) == \E w \in hist.written : IsPrefix(Comps(p), Comps(w))
Succeeded == hist.exit = "published" /\ result.status = "success"
OldDirsGone ==
    \A e \in hist.fs0 :
        (DirectChild(destination, e) /\ e.kind = "dir" /\ ~Recreated(e.path)) =>
            \A g \in fs : ~IsPrefix(Comps(e.path), Comps(g.path))

\* C13 (as claimed): after a success every old subdirectory of the
\* destination that no archive recreated is gone and every old file directly
\* under the destination is still there, untouched.
C13_DirsGoneFilesUntouched ==
    Succeeded =>
        /\ OldDirsGone
        /\ \A e \in hist.fs0 :
               (DirectChild(destination, e) /\ e.kind = "file") => e \in fs

\* C13 (amended): ... and every old file directly under the destination
\* that no extracted member was written to is still there, untouched.
C13_DirsGoneOtherFilesUntouched ==
    Succeeded =>
        /\ OldDirsGone
        /\ \A e \in hist.fs0 :
               (DirectChild(destination, e) /\ e.kind = "file"
                    /\ e.path \notin hist.written) => e \in fs

\* a success over old contents: the old directory o is gone, the file f kept
C13_Witness ==
    /\ Succeeded /\ hist.written # {}
    /\ Entry(D \o <<"/", "o">>, "dir") \in hist.fs0
    /\ Entry(D \o <<"/", "f">>, "file") \in fs

WithSeparator(d) == IF endswith(d, <<SLASH>>) THEN d ELSE d \o <<SLASH>>
BelowDestination(dest, name) ==
    LET r == Target(dest, name)
    IN /\ startswith(r, WithSeparator(dest))
       /\ Len(r) > Len(WithSeparator(dest))
       /\ IsPrefix(Comps(dest), Comps(r))
       /\ Len(Comps(r)) > Len(Comps(dest))

\* C14 (as claimed): when _archive_paths_are_safe returns True, every
\* entry resolves to the destination, a separator and at least one further
\* component.
C14_SafeMeansBelow ==
    (pc = "path_ret" /\ paths_safe) =>
        \A j \in 1..Len(archive) : BelowDestination(destination, archive[j])

\* C14 (amended): the same for every destination but the root directory.
C14_SafeMeansBelowUnlessRoot ==
    (pc = "path_ret" /\ paths_safe /\ destination # Root) =>
        \A j \in 1..Len(archive) : BelowDestination(destination, archive[j])

\* a two-entry archive found safe for /d
C14_Witness ==
    pc = "path_ret" /\ paths_safe /\ destination = D /\ Len(archive) = 2

InCheck == pc \in {"check_open", "check_paths", "check_close", "check_done"}
InExtract == pc \in {"extract_open", "extract_all", "extract_close", "extract_done"}
First(n) == {units[i] : i \in 1..n}
Entries(report) == Len(report.success_unit_keys) + Len(report.errors)

\* C15: all units are checked, in input order and one at a time, before
\* clearing; clearing is over before the first extraction; extraction takes
\* the units in input order, each one recorded before the next is opened.
C15_PhaseOrder ==
    /\ InCheck =>
           /\ ~hist.cleared /\ hist.extracted = {} /\ fs = hist.fs0
           /\ hist.checked = First(IF pc \in {"check_open", "check_done"}
                                   THEN idx - 1 ELSE idx)
           /\ pc = "check_done" => hist.checked = Range(units)
    /\ pc = "clear" =>
           /\ hist.checked = Range(units) /\ handles = {}
           /\ ~hist.cleared /\ hist.extracted = {}
    /\ InExtract =>
           /\ hist.cleared /\ hist.checked = Range(units)
           /\ hist.extracted \subseteq First(IF pc \in {"extract_open", "extract_done"}
                                             THEN idx - 1 ELSE idx)
           /\ pc = "extract_all" => unit_key \notin hist.extracted
           /\ Entries(detail_report) = Entries(hist.report0) + (idx - 1)
           /\ pc = "extract_done" => idx = Len(units) + 1

\* the second unit is being extracted
C15_Witness == pc = "extract_close" /\ idx = 2

\* C16: an archive is open only while its own unit is being checked or
\* extracted: never two at once, none between units, between phases or
\* after publish_repo has ended.
C16_HandlesClosed ==
    /\ Cardinality(handles) <= 1
    /\ handles # {} =>
           /\ pc \in {"check_paths", "check_close", "extract_all", "extract_close"}
           /\ handles = {unit_key}
    /\ pc \in {"idle", "done", "check_open", "check_done", "clear",
               "extract_open", "extract_done"} => handles = {}

\* a run went through an extraction that failed, and has ended
C16_Witness ==
    Returned /\ hist.extracted \cap hist.io_failed # {} /\ handles = {}

AfterClear ==
    \/ pc = "extract_open" /\ idx = 1
    \/ pc = "extract_done" /\ units = <<>>

\* C17: after _clear_destination_directory returned, exactly the
\* directories directly under the destination and what was below them are
\* gone; every other entry, inside or outside, is as before.
C17_ClearRemovesDirectoriesOnly ==
    AfterClear =>
        /\ fs \subseteq hist.fs0
        /\ \A e \in hist.fs0 :
               e \in fs <=>
                   ~\E c \in hist.fs0 :
                       /\ DirectChild(destination, c) /\ c.kind = "dir"
                       /\ IsPrefix(Comps(c.path), Comps(e.path))

\* clearing has removed something
C17_Witness == AfterClear /\ fs # hist.fs0

AddedSuccesses ==
    SubSeq(detail_report.success_unit_keys,
           Len(hist.report0.success_unit_keys) + 1,
           Len(detail_report.success_unit_keys))
C18_Step ==
    /\ detail_report'.success_unit_keys # detail_report.success_unit_keys =>
           /\ pc = "extract_close" /\ exc = NoError
           /\ unit_key \in hist.extracted
           /\ unit_key \notin hist'.io_failed
           /\ handles' = {}
           /\ detail_report'.success_unit_keys =
                  Append(detail_report.success_unit_keys, unit_key)
           /\ detail_report'.errors = detail_report.errors
    /\ hist'.exit \in {"no_path", "unsafe", "clear_failed"} =>
           detail_report'.success_unit_keys = hist'.report0.success_unit_keys
    /\ \A i, j \in DOMAIN AddedSuccesses' :
           i < j => AddedSuccesses'[i] < AddedSuccesses'[j]

\* C18: a success is appended only by the step that closes a unit's archive
\* in the extraction phase, with extractall and close both done without
\* error; a run that returns early adds none; the successes of a run are in
\* input order.
C18_SuccessOnlyAfterExtraction == [][C18_Step]_vars

\* a run has recorded two successes
C18_Witness ==
    hist.exit = "published" /\ Len(AddedSuccesses) = 2

====
